---------------------------- MODULE Spec2Model ----------------------------
(***************************************************************************)
(* Model of shadowfax's DiscreteStellarFeedback                            *)
(* (src/src/DiscreteStellarFeedback.cpp): the IMF / delay-time density     *)
(* functions, initialize(), dump() and the restart constructor.            *)
(*                                                                         *)
(* Numbers.  The program's doubles are modelled as fixed-point integers    *)
(* with six decimals: the double x is the integer x * One.  Masses are in  *)
(* solar masses, times in Gyr, energies in units of 1e51 erg (so that the  *)
(* literal 1.e51 is One).  Products and quotients round towards zero and   *)
(* saturate at Huge; the only saturating value of a run is the exponent    *)
(* -0.5*a*a of PopII_SNIa_delay1 far from the peak, where exp() is 0 at    *)
(* the model's resolution (as it is 0 in double precision beyond a = 39).  *)
(***************************************************************************)
EXTENDS Integers, Sequences, FiniteSets, TLC

\* 1.0 in fixed point; Kilo * Kilo = One.
One == 1000000
Kilo == 1000
\* The largest magnitude a fixed-point number takes (2000.0).
Huge == 2000 * One
\* The value of an invalid operation (pow of a negative base): a NaN.
NaN == 0 - (Huge + 1)

Abs(a) == IF a < 0 THEN 0 - a ELSE a
Min(a, b) == IF a < b THEN a ELSE b
Max(a, b) == IF a > b THEN a ELSE b
IsNaN(a) == a = NaN
Sat(a) == IF a > Huge THEN Huge ELSE a

\* (ah * Kilo + al) * (bh * Kilo + bl) / One, without leaving 32 bits.
MulParts(ah, al, bh, bl) ==
    IF ah > 0 /\ bh > Huge \div ah
    THEN Huge
    ELSE Sat(ah * bh + (ah * bl) \div Kilo + (al * bh) \div Kilo
             + (((ah * bl) % Kilo) + ((al * bh) % Kilo) + (al * bl) \div Kilo)
               \div Kilo)

\* 1 when a and b have the same sign, -1 when not
SameSign(a, b) == IF (a < 0) = (b < 0) THEN 1 ELSE 0 - 1

\* |a| * |b| / One for a, b >= 0
MulAbs(a, b) == MulParts(a \div Kilo, a % Kilo, b \div Kilo, b % Kilo)

\* a * b
Mul(a, b) ==
    IF IsNaN(a) \/ IsNaN(b) THEN NaN
    ELSE SameSign(a, b) * MulAbs(Abs(a), Abs(b))

\* base^n
RECURSIVE Power(_, _)
Power(base, n) == IF n = 0 THEN 1 ELSE base * Power(base, n - 1)

\* The n digits in base `base` of r / b, for 0 <= r < b and b * base < 2^31.
RECURSIVE DivDigits(_, _, _, _)
DivDigits(r, b, base, n) ==
    IF n = 0 THEN 0
    ELSE ((r * base) \div b) * Power(base, n - 1)
         + DivDigits((r * base) % b, b, base, n - 1)

\* a / b * One for a >= 0 and 0 < b < 2^31 / 10, to six decimals.
DivSmall(a, b) ==
    IF a \div b >= 2000 THEN Huge
    ELSE (a \div b) * One
         + DivDigits(a % b, b,
                     IF b < 2000000 THEN Kilo ELSE IF b < 20000000 THEN 100 ELSE 10,
                     IF b < 2000000 THEN 2 ELSE IF b < 20000000 THEN 3 ELSE 6)

\* |a| / |b| * One for a >= 0, b > 0.
DivAbs(a, b) ==
    DivSmall(IF b >= 200000000 THEN a \div 10 ELSE a,
             IF b >= 200000000 THEN b \div 10 ELSE b)

\* a / b (x / 0 is an infinity, saturated)
Div(a, b) ==
    IF IsNaN(a) \/ IsNaN(b) THEN NaN
    ELSE IF b = 0 THEN (IF a = 0 THEN NaN ELSE IF a > 0 THEN Huge ELSE 0 - Huge)
    ELSE SameSign(a, b) * DivAbs(Abs(a), Abs(b))

\* 10^(d/10) and 10^(d/100) for d = 0..9, in fixed point.
Tenth == <<1000000, 1258925, 1584893, 1995262, 2511886,
           3162278, 3981072, 5011872, 6309573, 7943282>>
Hundredth == <<1000000, 1023293, 1047129, 1071519, 1096478,
               1122018, 1148154, 1174898, 1202264, 1230269>>
\* ln(10) and log10(e)
Ln10 == 2302585
Log10e == 434294

\* x * 10^n for an integer n
RECURSIVE Scale10(_, _)
Scale10(x, n) ==
    IF n = 0 \/ x = 0 THEN x
    ELSE IF n < 0 THEN (IF n < -10 THEN 0 ELSE Scale10(x \div 10, n + 1))
    ELSE IF x >= Huge \div 10 THEN Huge
    ELSE Scale10(x * 10, n - 1)

\* exp(e) for 0 <= e < 0.024, given e2 = e * e
ExpSeries(e, e2) == One + e + e2 \div 2 + Mul(e2, e) \div 6
ExpSmall(e) == ExpSeries(e, Mul(e, e))

\* 10^r for 0 <= r < 1: two table digits and a series for the rest
Pow10Fraction(r) ==
    Mul(Mul(Tenth[r \div 100000 + 1], Hundredth[(r % 100000) \div 10000 + 1]),
        ExpSmall(Mul(r % 10000, Ln10)))

\* pow(10., u)
Pow10(u) ==
    IF IsNaN(u) THEN NaN
    ELSE IF u >= 4 * One THEN Huge
    ELSE IF u <= (0 - 7) * One THEN 0
    ELSE Scale10(Pow10Fraction(u % One), u \div One)

\* The decade of x > 0: the n with 10^n <= x < 10^(n+1).
RECURSIVE Decade(_)
Decade(x) ==
    IF x >= 10 * One THEN 1 + Decade(x \div 10)
    ELSE IF x < One THEN Decade(x * 10) - 1
    ELSE 0

\* The largest d in 0..9 with table[d + 1] <= y
Digit(table, y) == CHOOSE d \in 0..9 :
    /\ table[d + 1] <= y
    /\ d < 9 => table[d + 2] > y

\* ln(1 + e) for 0 <= e < 0.024, given e2 = e * e
LnSeries(e, e2) == e - e2 \div 2 + Mul(e2, e) \div 3 - Mul(e2, e2) \div 4
LnSmall(e) == LnSeries(e, Mul(e, e))

\* log10(y) for 1 <= y < 1.26, given its digit d2 of the table Hundredth
Log10Hundredth(y, d2) ==
    d2 * 10000 + Mul(LnSmall(Div(y, Hundredth[d2 + 1]) - One), Log10e)
\* log10(y) for 1 <= y < 10, given its digit d1 of the table Tenth
Log10Tenth(y, d1, y1) == d1 * 100000 + Log10Hundredth(y1, Digit(Hundredth, y1))
Log10Mantissa(y, d1) == Log10Tenth(y, d1, Div(y, Tenth[d1 + 1]))
\* log10(x) for x > 0, given its decade n
Log10Decade(x, n, y) == n * One + Log10Mantissa(y, Digit(Tenth, y))

\* log10(x); log10(0) is -infinity (saturated), of a negative number NaN.
Log10(x) ==
    IF IsNaN(x) \/ x < 0 THEN NaN
    ELSE IF x = 0 THEN 0 - Huge
    ELSE Log10Decade(x, Decade(x), Scale10(x, 0 - Decade(x)))

\* exp(x)
Exp(x) == Pow10(Mul(x, Log10e))

\* pow(x, p) for a non-integer p
Pow(x, p) ==
    IF IsNaN(x) \/ x < 0 THEN NaN
    ELSE IF x = 0 THEN (IF p > 0 THEN 0 ELSE Huge)
    ELSE Pow10(Mul(p, Log10(x)))

(***************************************************************************)
(* The object.  A DiscreteStellarFeedback is a function from its field     *)
(* names to <<>> (never assigned) or <<v>> (assigned the value v).  A      *)
(* scalar value is a fixed-point number, a spline value a record made by   *)
(* create().                                                               *)
(***************************************************************************)
Get(o, f) == o[f][1]
Put(o, f, v) == [o EXCEPT ![f] = <<v>>]

\* Low mass part of the Chabrier IMF, given a = log10(m) + 1.1024
PopII_IMF_sub1_a(m, a) ==
    Div(Exp(Mul(0 - 500000, Div(Mul(a, a), 476100))), m)

\* Low mass part of the Chabrier IMF
PopII_IMF_sub1(m) == PopII_IMF_sub1_a(m, Log10(m) + 1102400)

\* A Chabrier IMF whose mass interval includes its two bounds
PopII_IMF_closed(o, m) ==
    IF m >= Get(o, "_PopII_M_low") /\ m <= Get(o, "_PopII_M_upp")
    THEN IF m < One
         THEN Mul(Get(o, "_PopII_fac_IMF"), PopII_IMF_sub1(m))
         ELSE Pow(m, 0 - 2300000)
    ELSE 0

\* Chabrier IMF
PopII_IMF(o, m) ==
    IF m > Get(o, "_PopII_M_low") /\ m < Get(o, "_PopII_M_upp")
    THEN IF m < One
         THEN Mul(Get(o, "_PopII_fac_IMF"), PopII_IMF_sub1(m))
         ELSE Pow(m, 0 - 2300000)
    ELSE 0

\* Chabrier IMF mass integrand
PopII_mIMF(o, m) == Mul(m, PopII_IMF(o, m))

\* First part of the SNIa delay time distribution, given
\* a = (t - _PopII_SNIa_delay_mu) / _PopII_SNIa_delay_sigma
PopII_SNIa_delay1_a(o, t, a) ==
    Mul(Mul(Mul(Get(o, "_PopII_SNIa_delay_norm1"), t - 30000), 13600000 - t),
        Exp(Mul(Mul(0 - 500000, a), a)))

\* First part of the SNIa delay time distribution
PopII_SNIa_delay1(o, t) ==
    PopII_SNIa_delay1_a(o, t, Div(t - Get(o, "_PopII_SNIa_delay_mu"),
                                  Get(o, "_PopII_SNIa_delay_sigma")))

\* if(delay > 0.) return delay; else return 0.;
PositiveOrZero(delay) == IF ~IsNaN(delay) /\ delay > 0 THEN delay ELSE 0

\* Second part of the SNIa delay time distribution
PopII_SNIa_delay2(o, t) ==
    PositiveOrZero(
        Mul(Get(o, "_PopII_SNIa_delay_norm2"),
            Exp(IF t < 250000 THEN Div(t - 250000, 100000)
                ELSE Div(250000 - t, 7 * One))
            - Exp(Div(30000 - 250000, 100000))))

\* SNIa delay time distribution
PopII_SNIa_delay(o, t) == PopII_SNIa_delay1(o, t) + PopII_SNIa_delay2(o, t)

\* if(IMF > 0.) return IMF / m; else return 0.;
PopIII_IMF_clamp(m, IMF) == IF ~IsNaN(IMF) /\ IMF > 0 THEN Div(IMF, m) ELSE 0
\* IMF = _PopIII_fac * pow(IMF * (1.0 - IMF), _PopIII_pw)
PopIII_IMF_power(o, m, IMF) ==
    PopIII_IMF_clamp(m, Mul(Get(o, "_PopIII_fac"),
                            Pow(Mul(IMF, One - IMF), Get(o, "_PopIII_pw"))))

\* The two branches of the Susa IMF in logm = log10(m)
PopIII_IMF_logm(o, m, logm, M1, M2, M3) ==
    PopIII_IMF_power(o, m,
        IF logm < M2
        THEN Div(Mul(500000, logm - M1), M2 - M1)
        ELSE Div(Mul(500000, logm + M3 - 2 * M2), M3 - M2))

\* Susa PopIII IMF
PopIII_IMF(o, m) ==
    IF m > Get(o, "_PopIII_M_low") /\ m < Get(o, "_PopIII_M_upp")
    THEN PopIII_IMF_logm(o, m, Log10(m), Get(o, "_PopIII_M1"),
                         Get(o, "_PopIII_M2"), Get(o, "_PopIII_M3"))
    ELSE 0

\* Susa PopIII IMF mass integrand
PopIII_mIMF(o, m) == Mul(m, PopIII_IMF(o, m))

(***************************************************************************)
(* GSL::GSLInterpolator.  create(kind, xs, ys, count) keeps the first      *)
(* count knots; eval() of a linear interpolator interpolates between the   *)
(* two knots around x.  A knot abscissa is x[k] + fine[k] * 1e-10: fine    *)
(* holds what a double keeps below the model's sixth decimal.              *)
(***************************************************************************)
create(kind, xs, fine, ys, count) ==
    [kind |-> kind,
     x |-> [k \in 1..count |-> xs[k]],
     fine |-> [k \in 1..count |-> fine[k]],
     y |-> [k \in 1..count |-> ys[k]]]

NoFine(n) == [k \in 1..n |-> 0]

\* Knot k of spline s is at or below the model number x.
KnotAtOrBelow(s, k, x) == s.x[k] < x \/ (s.x[k] = x /\ s.fine[k] = 0)

\* The interval of x: the last knot at or below x (the first, if none is)
Interval(s, x) ==
    IF \A k \in 1..(Len(s.x) - 1) : ~KnotAtOrBelow(s, k, x) THEN 1
    ELSE CHOOSE j \in 1..(Len(s.x) - 1) :
            /\ KnotAtOrBelow(s, j, x)
            /\ \A l \in (j + 1)..(Len(s.x) - 1) : ~KnotAtOrBelow(s, l, x)

Interpolate(s, x, k) ==
    IF s.x[k + 1] = s.x[k] THEN s.y[k]
    ELSE s.y[k] + Mul(Div(x - s.x[k], s.x[k + 1] - s.x[k]),
                      s.y[k + 1] - s.y[k])

eval(s, x) == Interpolate(s, x, Interval(s, x))

\* Energy of a PopIII SN with a given mass
PopIII_E_SN(o, m) == Mul(One, eval(Get(o, "_PopIII_E_SN_spline"), m))

\* Integrand of the PopIII IMF energy integral
PopIII_EIMF(o, m) == Mul(PopIII_E_SN(o, m), PopIII_IMF(o, m))

(***************************************************************************)
(* GSL::qag(f, a, b, tolerance, this): the integral of f over [a, b].      *)
(* The model resolves the integrand on a fixed logarithmic grid of         *)
(* CellsPerDecade cells per decade between 0.01 and 1000 (and one cell     *)
(* from 0 to 0.01): f is taken constant on every cell, with the value it   *)
(* has at the middle of the cell, and that step function is integrated     *)
(* exactly.  The integral is additive in its limits, and an integral with  *)
(* reversed limits is the negated integral.                                *)
(***************************************************************************)
CellsPerDecade == 40
QCells == 5 * CellsPerDecade + 1
QNode == [j \in 0..QCells |->
            IF j = 0 THEN 0
            ELSE Pow10(((j - 1) * One) \div CellsPerDecade - 2 * One)]

\* The static trampolines: the member function fn of object o at x.
Integrand(fn, o, x) ==
    CASE fn = "PopII_IMF" -> PopII_IMF(o, x)
      [] fn = "PopII_mIMF" -> PopII_mIMF(o, x)
      [] fn = "PopII_SNIa_delay1" -> PopII_SNIa_delay1(o, x)
      [] fn = "PopII_SNIa_delay2" -> PopII_SNIa_delay2(o, x)
      [] fn = "PopII_SNIa_delay" -> PopII_SNIa_delay(o, x)
      [] fn = "PopIII_IMF" -> PopIII_IMF(o, x)
      [] fn = "PopIII_mIMF" -> PopIII_mIMF(o, x)
      [] fn = "PopIII_EIMF" -> PopIII_EIMF(o, x)

\* The integral over the part of cell j inside [a, b]
QTerm(fn, o, a, b, j) ==
    IF Min(b, QNode[j]) <= Max(a, QNode[j - 1]) THEN 0
    ELSE Mul(Integrand(fn, o, (QNode[j - 1] + QNode[j]) \div 2),
             Min(b, QNode[j]) - Max(a, QNode[j - 1]))

\* The sum of the terms of cells from..to.
RECURSIVE QSum(_, _, _, _, _, _)
QSum(fn, o, a, b, from, to) ==
    IF from > to \/ QNode[to] <= a \/ QNode[from - 1] >= b THEN 0
    ELSE IF from = to THEN QTerm(fn, o, a, b, from)
    ELSE QSum(fn, o, a, b, from, (from + to) \div 2)
         + QSum(fn, o, a, b, (from + to) \div 2 + 1, to)

qag(fn, o, a, b) ==
    (IF a <= b THEN 1 ELSE 0 - 1) * QSum(fn, o, Min(a, b), Max(a, b), 1, QCells)

(***************************************************************************)
(* The fields of DiscreteStellarFeedback that the source file names.       *)
(***************************************************************************)
ScalarFields == {
    "_PopIII_Eint", "_PopIII_M1",
    "_PopIII_M2", "_PopIII_M3",
    "_PopIII_M_SN_low", "_PopIII_M_low",
    "_PopIII_M_upp", "_PopIII_Mint",
    "_PopIII_Nint", "_PopIII_SN_Fe",
    "_PopIII_SN_Mg", "_PopIII_SN_energy",
    "_PopIII_SN_mass", "_PopIII_SN_metals",
    "_PopIII_SW_end_time", "_PopIII_SW_energy",
    "_PopIII_cutoff", "_PopIII_fac",
    "_PopIII_pw", "_PopII_M_SNII_low",
    "_PopII_M_SNIa_low", "_PopII_M_SNIa_upp",
    "_PopII_M_low", "_PopII_M_upp",
    "_PopII_Mint", "_PopII_NIIint",
    "_PopII_NIaint", "_PopII_SNII_Fe",
    "_PopII_SNII_Mg", "_PopII_SNII_energy",
    "_PopII_SNII_mass", "_PopII_SNII_metals",
    "_PopII_SNIa_Fe", "_PopII_SNIa_Mg",
    "_PopII_SNIa_delay_mu", "_PopII_SNIa_delay_norm1",
    "_PopII_SNIa_delay_norm2", "_PopII_SNIa_delay_sigma",
    "_PopII_SNIa_energy", "_PopII_SNIa_mass",
    "_PopII_SNIa_metals", "_PopII_SW_end_time",
    "_PopII_SW_energy", "_PopII_fac_IMF"}

SplineFields == {
    "_PopIII_E_SN_spline", "_PopIII_IMF_spline",
    "_PopIII_lifetime_spline", "_PopII_SNIa_delay_spline",
    "_PopII_lifetime_spline"}

Fields == ScalarFields \cup SplineFields

\* An object none of whose fields has been assigned.
Unassigned == [f \in Fields |-> <<>>]

\* The fields of an object that have been assigned
Assigned(o) == {f \in Fields : o[f] # <<>>}

\* The fields a density function reads when it is evaluated, those read by
\* the functions it calls included
FieldsRead(fn) ==
    LET PopII == {"_PopII_M_low", "_PopII_M_upp", "_PopII_fac_IMF"}
        delay1 == {"_PopII_SNIa_delay_mu", "_PopII_SNIa_delay_sigma",
                   "_PopII_SNIa_delay_norm1"}
        delay2 == {"_PopII_SNIa_delay_norm2"}
        PopIII == {"_PopIII_M_low", "_PopIII_M_upp", "_PopIII_M1",
                   "_PopIII_M2", "_PopIII_M3", "_PopIII_fac", "_PopIII_pw"}
    IN  CASE fn = "PopII_IMF" -> PopII
          [] fn = "PopII_mIMF" -> PopII
          [] fn = "PopII_SNIa_delay1" -> delay1
          [] fn = "PopII_SNIa_delay2" -> delay2
          [] fn = "PopII_SNIa_delay" -> delay1 \cup delay2
          [] fn = "PopIII_IMF" -> PopIII
          [] fn = "PopIII_mIMF" -> PopIII
          [] fn = "PopIII_EIMF" -> {"_PopIII_E_SN_spline"} \cup PopIII

\* A step of 0.09 for the delay time loop
DelayStep_finer == 9 * 10000

\* Program constants of initialize()
DelayKnots == 30
PopIIIKnots == 289
DelayStep == 100000
PopIIIStep == 10000

\* A local array double a[n], no slot assigned: slots 0..n-1
Array(n) == [k \in 0..(n - 1) |-> <<>>]
InBounds(a, k) == k \in DOMAIN a
Store(a, k, v) == [a EXCEPT ![k] = <<v>>]
AllStored(a) == \A k \in DOMAIN a : a[k] # <<>>
\* The array as the sequence of its slots' values
Values(a, n) == [k \in 1..n |-> a[k - 1][1]]

VARIABLES
    pc,        \* the statement the program is at
    self,      \* the object built by DiscreteStellarFeedback()
    loc,       \* the local variables of initialize()
    calls,     \* history: the GSL::qag calls made so far
    rfile,     \* the RestartFile: the items written, in order
    restored,  \* the object built by DiscreteStellarFeedback(RestartFile&)
    reads,     \* history: the fields the restart constructor has read into
    probe,     \* the last evaluation of a density function
    ub         \* an out-of-bounds array access has happened

vars == <<pc, self, loc, calls, rfile, restored, reads, probe, ub>>

NoLocals ==
    [dint |-> <<>>, i |-> <<>>, t |-> <<>>, m |-> <<>>,
     ts |-> Array(DelayKnots), cumul_delay |-> Array(DelayKnots),
     PopIII_IMF_ms |-> Array(PopIIIKnots),
     PopIII_IMF_IMFs |-> Array(PopIIIKnots)]

Init ==
    /\ pc = "chabrier"
    /\ self = Unassigned
    /\ loc = NoLocals
    /\ calls = <<>>
    /\ rfile = <<>>
    /\ restored = Unassigned
    /\ reads = <<>>
    /\ probe = <<>>
    /\ ub = FALSE

\* The record of a call qag(fn, a, b) that returned val, with the values the
\* two DTD normalization constants had during the call and the fields that
\* had been assigned when the statement making the call began.
Call(fn, a, b, val) ==
    [fn |-> fn, a |-> a, b |-> b, val |-> val,
     norm1 |-> self["_PopII_SNIa_delay_norm1"],
     norm2 |-> self["_PopII_SNIa_delay_norm2"],
     assigned |-> Assigned(self)]

\* Several fields assigned in order: puts is a sequence of <<field, value>>.
RECURSIVE PutAll(_, _)
PutAll(o, puts) ==
    IF puts = <<>> THEN o
    ELSE PutAll(Put(o, Head(puts)[1], Head(puts)[2]), Tail(puts))

(***************************************************************************)
(* initialize()                                                            *)
(***************************************************************************)
\* Chabrier IMF: mass interval and normalization factor for low mass part
ChabrierParameters ==
    /\ pc = "chabrier"
    /\ self' = PutAll(self, <<
           <<"_PopII_M_low", 70000>>,
           <<"_PopII_M_upp", 100 * One>>,
           <<"_PopII_M_SNII_low", 8 * One>>,
           <<"_PopII_M_SNIa_low", 3 * One>>,
           <<"_PopII_M_SNIa_upp", 8 * One>>,
           <<"_PopII_fac_IMF", Div(One, PopII_IMF_sub1(One))>> >>)
    /\ pc' = "delay_parameters"
    /\ UNCHANGED <<loc, calls, rfile, restored, reads, probe, ub>>

\* SNIa delay time distribution
DelayParameters ==
    /\ pc = "delay_parameters"
    /\ self' = PutAll(self, <<
           <<"_PopII_SNIa_delay_mu", 50000>>,
           <<"_PopII_SNIa_delay_sigma", 10000>>,
           <<"_PopII_SNIa_delay_norm1", One>>,
           <<"_PopII_SNIa_delay_norm2", One>> >>)
    /\ pc' = "popIII_parameters"
    /\ UNCHANGED <<loc, calls, rfile, restored, reads, probe, ub>>

\* Cutoff metallicity; PopIII IMF: mass interval and factors
PopIIIParameters ==
    /\ pc = "popIII_parameters"
    /\ LET o1 == PutAll(self, <<
                    <<"_PopIII_cutoff", (0 - 5) * One>>,
                    <<"_PopIII_M_low", 700000>>,
                    <<"_PopIII_M_upp", 500 * One>>,
                    <<"_PopIII_M_SN_low", 10 * One>> >>)
       IN  self' = PutAll(o1, <<
               <<"_PopIII_M1", Log10(Get(o1, "_PopIII_M_low"))>>,
               <<"_PopIII_M2", 1511308>>,
               <<"_PopIII_M3", Log10(Get(o1, "_PopIII_M_upp"))>>,
               <<"_PopIII_fac", 708925448>>,
               <<"_PopIII_pw", 2800839>> >>)
    /\ pc' = "popII_integrals"
    /\ UNCHANGED <<loc, calls, rfile, restored, reads, probe, ub>>

\* Number of SNII and SNIa by integrating the Chabrier IMF
PopIIIntegrals ==
    /\ pc = "popII_integrals"
    /\ LET low == Get(self, "_PopII_M_low")
           upp == Get(self, "_PopII_M_upp")
           SNII_low == Get(self, "_PopII_M_SNII_low")
           SNIa_low == Get(self, "_PopII_M_SNIa_low")
           SNIa_upp == Get(self, "_PopII_M_SNIa_upp")
           Mint == qag("PopII_mIMF", self, low, upp)
           NIIint == qag("PopII_IMF", self, SNII_low, upp)
           NIaint == qag("PopII_IMF", self, SNIa_low, SNIa_upp)
       IN  /\ self' = PutAll(self, << <<"_PopII_Mint", Mint>>,
                                      <<"_PopII_NIIint", NIIint>>,
                                      <<"_PopII_NIaint", NIaint>> >>)
           /\ calls' = calls \o << Call("PopII_mIMF", low, upp, Mint),
                                   Call("PopII_IMF", SNII_low, upp, NIIint),
                                   Call("PopII_IMF", SNIa_low, SNIa_upp, NIaint) >>
    /\ pc' = "popIII_integrals"
    /\ UNCHANGED <<loc, rfile, restored, reads, probe, ub>>

\* Number of PopIII SN by integrating the Susa IMF
PopIIIIntegrals ==
    /\ pc = "popIII_integrals"
    /\ LET low == Get(self, "_PopIII_M_low")
           upp == Get(self, "_PopIII_M_upp")
           SN_low == Get(self, "_PopIII_M_SN_low")
           Mint == qag("PopIII_mIMF", self, low, upp)
           Nint == qag("PopIII_IMF", self, SN_low, upp)
       IN  /\ self' = PutAll(self, << <<"_PopIII_Mint", Mint>>,
                                      <<"_PopIII_Nint", Nint>> >>)
           /\ calls' = calls \o << Call("PopIII_mIMF", low, upp, Mint),
                                   Call("PopIII_IMF", SN_low, upp, Nint) >>
    /\ pc' = "normalize_delay1"
    /\ UNCHANGED <<loc, rfile, restored, reads, probe, ub>>

\* Fractions that are not those of the source: 0.6 for the first part, 0.7
\* for the second
Fraction1_swapped == 6 * 100000
Fraction2_too_large == 7 * 100000

\* The targets of the two parts of the delay time distribution
Fraction1 == 400000
Fraction2 == 600000

\* Normalize the SNIa delay time function: first part
NormalizeDelay1 ==
    /\ pc = "normalize_delay1"
    /\ LET dint == qag("PopII_SNIa_delay1", self, 30000, 13600000)
       IN  /\ loc' = [loc EXCEPT !.dint = <<dint>>]
           /\ self' = Put(self, "_PopII_SNIa_delay_norm1", Div(Fraction1, dint))
           /\ calls' = Append(calls,
                              Call("PopII_SNIa_delay1", 30000, 13600000, dint))
    /\ pc' = "normalize_delay2"
    /\ UNCHANGED <<rfile, restored, reads, probe, ub>>

\* Normalize the SNIa delay time function: second part
NormalizeDelay2 ==
    /\ pc = "normalize_delay2"
    /\ LET dint == qag("PopII_SNIa_delay2", self, 30000, 13600000)
       IN  /\ loc' = [loc EXCEPT !.dint = <<dint>>]
           /\ self' = Put(self, "_PopII_SNIa_delay_norm2", Div(Fraction2, dint))
           /\ calls' = Append(calls,
                              Call("PopII_SNIa_delay2", 30000, 13600000, dint))
    /\ pc' = "delay_spline"
    /\ UNCHANGED <<rfile, restored, reads, probe, ub>>

\* The cumulative SNIa delay time spline: declarations and for-init
DelaySplineBegin ==
    /\ pc = "delay_spline"
    /\ loc' = [loc EXCEPT !.i = <<1>>,
                          !.ts = Store(@, 0, (0 - 2) * One),
                          !.cumul_delay = Store(@, 0, 0),
                          !.t = <<Log10(30000)>>]
    /\ pc' = "delay_loop"
    /\ UNCHANGED <<self, calls, rfile, restored, reads, probe, ub>>

\* for(t = log10(0.03); t < log10(13.6); t += 0.1): one test of the
\* condition and, when it holds, one execution of the body and increment.
DelaySplineLoop ==
    /\ pc = "delay_loop"
    /\ LET i == loc.i[1]
           t == loc.t[1]
           upper == Pow10(t)
           val == qag("PopII_SNIa_delay", self, 30000, upper)
       IN  IF ~(t < Log10(13600000))
           THEN /\ pc' = "delay_knots"
                /\ UNCHANGED <<loc, calls, ub>>
           ELSE IF ~InBounds(loc.ts, i)
           THEN /\ pc' = "undefined"
                /\ ub' = TRUE
                /\ UNCHANGED <<loc, calls>>
           ELSE /\ loc' = [loc EXCEPT !.ts = Store(@, i, t),
                                      !.cumul_delay = Store(@, i, val),
                                      !.i = <<i + 1>>,
                                      !.t = <<t + DelayStep>>]
                /\ calls' = Append(calls,
                                   Call("PopII_SNIa_delay", 30000, upper, val))
                /\ pc' = "delay_loop"
                /\ ub' = ub
    /\ UNCHANGED <<self, rfile, restored, reads, probe>>

\* ts[0] += ts[1]: the padding knot two decades below the first sample
PaddingAbscissa_below_first_sample(ts, cumul_delay) == ts[0][1] + ts[1][1]

\* ts[0] += cumul_delay[1];
PaddingAbscissa(ts, cumul_delay) == ts[0][1] + cumul_delay[1][1]

\* The two trailing knots, the padding knot and the spline
DelaySplineEnd ==
    /\ pc = "delay_knots"
    /\ LET ts1 == Store(Store(loc.ts, 28, Log10(13600000)),
                        29, Log10(13800000))
           cumul == Store(Store(loc.cumul_delay, 28, One), 29, One)
       IN  IF cumul[1] = <<>> \/ ~AllStored(ts1) \/ ~AllStored(cumul)
           THEN /\ pc' = "undefined"
                /\ ub' = TRUE
                /\ UNCHANGED <<loc, self>>
           ELSE LET ts == Store(ts1, 0, PaddingAbscissa(ts1, cumul))
                IN  /\ loc' = [loc EXCEPT !.ts = ts, !.cumul_delay = cumul]
                    /\ self' = Put(self, "_PopII_SNIa_delay_spline",
                                   create("cubic", Values(ts, DelayKnots),
                                          NoFine(DelayKnots),
                                          Values(cumul, DelayKnots),
                                          DelayKnots))
                    /\ pc' = "popIII_spline"
                    /\ ub' = ub
    /\ UNCHANGED <<calls, rfile, restored, reads, probe>>

\* The cumulative PopIII IMF spline: declarations and for-init
PopIIISplineBegin ==
    /\ pc = "popIII_spline"
    /\ LET upp == Get(self, "_PopIII_M_upp")
           total == qag("PopIII_IMF", self, 0, upp)
       IN  /\ loc' = [loc EXCEPT
                        !.i = <<1>>,
                        !.PopIII_IMF_ms = Store(@, 0, (0 - 2) * One),
                        !.PopIII_IMF_IMFs = Store(@, 0, total),
                        !.m = <<Log10(Get(self, "_PopIII_M_low"))>>]
           /\ calls' = Append(calls, Call("PopIII_IMF", 0, upp, total))
    /\ pc' = "popIII_loop"
    /\ UNCHANGED <<self, rfile, restored, reads, probe, ub>>

\* The integral below m instead of the integral above it
PopIII_IMF_below(o, m) ==
    qag("PopIII_IMF", o, Get(o, "_PopIII_M_low"), Pow10(m))

\* GSL::qag(&PopIII_IMF_static, pow(10., m), _PopIII_M_upp, 1.e-8, this)
PopIII_IMF_above(o, m) ==
    qag("PopIII_IMF", o, Pow10(m), Get(o, "_PopIII_M_upp"))

\* for(m = log10(_PopIII_M_low); m < log10(_PopIII_M_upp); m += 0.01): one
\* test of the condition and, when it holds, one execution of the body and
\* increment.
PopIIISplineLoop ==
    /\ pc = "popIII_loop"
    /\ LET i == loc.i[1]
           m == loc.m[1]
           upp == Get(self, "_PopIII_M_upp")
           lower == Pow10(m)
           val == PopIII_IMF_above(self, m)
       IN  IF ~(m < Log10(upp))
           THEN /\ pc' = "popIII_knots"
                /\ UNCHANGED <<loc, calls, ub>>
           ELSE IF ~InBounds(loc.PopIII_IMF_ms, i)
           THEN /\ pc' = "undefined"
                /\ ub' = TRUE
                /\ UNCHANGED <<loc, calls>>
           ELSE /\ loc' = [loc EXCEPT !.PopIII_IMF_ms = Store(@, i, m),
                                      !.PopIII_IMF_IMFs = Store(@, i, val),
                                      !.i = <<i + 1>>,
                                      !.m = <<m + PopIIIStep>>]
                /\ calls' = Append(calls, Call("PopIII_IMF", lower, upp, val))
                /\ pc' = "popIII_loop"
                /\ ub' = ub
    /\ UNCHANGED <<self, rfile, restored, reads, probe>>

\* The two trailing knots and the spline
PopIIISplineEnd ==
    /\ pc = "popIII_knots"
    /\ LET ms == Store(Store(loc.PopIII_IMF_ms, 287,
                             Log10(Get(self, "_PopIII_M_upp"))),
                       288, 3 * One)
           IMFs == Store(Store(loc.PopIII_IMF_IMFs, 287, 0), 288, 0)
       IN  IF ~AllStored(ms) \/ ~AllStored(IMFs)
           THEN /\ pc' = "undefined"
                /\ ub' = TRUE
                /\ UNCHANGED <<loc, self>>
           ELSE /\ loc' = [loc EXCEPT !.PopIII_IMF_ms = ms,
                                      !.PopIII_IMF_IMFs = IMFs]
                /\ self' = Put(self, "_PopIII_IMF_spline",
                               create("linear", Values(ms, PopIIIKnots),
                                      NoFine(PopIIIKnots),
                                      Values(IMFs, PopIIIKnots), PopIIIKnots))
                /\ pc' = "lifetime_splines"
                /\ ub' = ub
    /\ UNCHANGED <<calls, rfile, restored, reads, probe>>

\* Sven's data
PopII_lifetime_ms == <<
    650000, 700000, 750000, 800000, 850000, 900000, 950000, 1000000,
    1050000, 1100000, 1150000, 1200000, 1250000, 1300000, 1350000, 1400000,
    1450000, 1500000, 1550000, 1600000, 1650000, 1700000, 1750000, 1800000,
    1850000, 1900000, 1950000, 2000000, 2050000, 2100000, 2150000, 2200000,
    2250000, 2300000, 2350000, 2400000, 2600000, 2800000, 3000000, 3200000,
    3400000, 3600000, 3800000, 4000000, 4200000, 4400000, 4600000, 4800000,
    5000000, 5200000, 5400000, 5600000, 5800000, 6000000, 6200000, 6400000,
    7000000, 8000000, 9000000, 10000000, 11000000, 12000000, 14000000, 16000000,
    18000000, 20000000, 24000000, 28000000, 30000000, 40000000, 45000000, 50000000,
    55000000, 60000000, 65000000, 70000000, 75000000, 80000000, 90000000, 95000000,
    100000000, 120000000, 150000000, 200000000, 250000000, 300000000, 350000000>>

PopII_lifetime_ts == <<
    10452000, 10341500, 10236200, 10139000, 10046800, 9958850, 9876050, 9798030,
    9723990, 9652170, 9583350, 9521380, 9467030, 9425910, 9382660, 9334950,
    9289530, 9245720, 9204220, 9165520, 9128060, 9092100, 9057280, 9023450,
    8991010, 8959350, 8929260, 8900030, 8871770, 8844460, 8817820, 8791940,
    8766900, 8742550, 8718700, 8696080, 8609370, 8530330, 8457520, 8390640,
    8328890, 8271220, 8217630, 8167090, 8120000, 8075450, 8033340, 7993360,
    7955610, 7919660, 7885510, 7852980, 7821910, 7792340, 7763850, 7736640,
    7661150, 7553430, 7462820, 7385820, 7319270, 7261130, 7163750, 7086810,
    7023250, 6970530, 6887220, 6823770, 6797410, 6722840, 6688240, 6659180,
    6634730, 6613620, 6595070, 6578990, 6564450, 6552410, 6529650, 6520280,
    6511100, 6482410, 6450540, 6415280, 6391400, 6373730, 6360560>>

PopIII_lifetime_ms == <<
    700000, 800000, 900000, 1000000, 1100000, 1200000, 1300000, 1400000,
    1500000, 1600000, 1800000, 2000000, 2500000, 3000000, 4000000, 5000000,
    10000000, 15000000, 20000000, 30000000, 50000000, 70000000, 100000000, 500000000>>

PopIII_lifetime_ts == <<
    1320770, 1133540, 947924, 785330, 637463, 516384, 399708, 289454,
    193159, 100413, -62413, -208425, -493919, -702468, -979499, -1185850,
    -1750030, -1963920, -2088370, -2242450, -2395660, -2474680, -2542760, -2890560>>

\* Woosley energy data: ms[k] + ms_fine[k] * 1e-10 and Es[k]
ms == <<
    700000, 10000000, 35000000, 40000000, 50000000, 60000000,
    70000000, 80000000, 90000000, 100000000, 140000000, 140000000,
    150000000, 170000000, 200000000, 270000000, 300000000, 500000000>>

\* The table without the 1.e-10 of its twelfth abscissa
ms_fine_dropped == <<0, 0, 0, 0, 0, 0, 0, 0, 0, 0, 0, 0, 0, 0, 0, 0, 0, 0>>

ms_fine == <<0, 0, 0, 0, 0, 0, 0, 0, 0, 0, 0, 1, 0, 0, 0, 0, 0, 0>>

Es == <<
    0, 1000000, 1000000, 1000000, 1000000, 1000000, 1000000, 1000000,
    1000000, 1000000, 1000000, 9000000, 16000000, 28000000, 44000000, 49000000,
    50000000, 50000000>>


\* PopII and PopIII lifetime splines
LifetimeSplines ==
    /\ pc = "lifetime_splines"
    /\ self' = PutAll(self, <<
           <<"_PopII_lifetime_spline",
             create("cubic", PopII_lifetime_ms, NoFine(87),
                    PopII_lifetime_ts, 87)>>,
           <<"_PopIII_lifetime_spline",
             create("cubic", PopIII_lifetime_ms, NoFine(24),
                    PopIII_lifetime_ts, 24)>> >>)
    /\ pc' = "energy_spline"
    /\ UNCHANGED <<loc, calls, rfile, restored, reads, probe, ub>>

\* The energy integral taken without the energy spline having been created
EnergySpline_not_created ==
    /\ pc = "energy_spline"
    /\ pc' = "energy_integral"
    /\ UNCHANGED <<self, loc, calls, rfile, restored, reads, probe, ub>>

\* PopIII SN energy spline
EnergySpline ==
    /\ pc = "energy_spline"
    /\ self' = Put(self, "_PopIII_E_SN_spline",
                   create("linear", ms, ms_fine, Es, 18))
    /\ pc' = "energy_integral"
    /\ UNCHANGED <<loc, calls, rfile, restored, reads, probe, ub>>

\* PopIII SN energy integral
EnergyIntegral ==
    /\ pc = "energy_integral"
    /\ LET low == Get(self, "_PopIII_M_SN_low")
           upp == Get(self, "_PopIII_M_upp")
           Eint == qag("PopIII_EIMF", self, low, upp)
       IN  /\ self' = Put(self, "_PopIII_Eint", Eint)
           /\ calls' = Append(calls, Call("PopIII_EIMF", low, upp, Eint))
    /\ pc' = "feedback_values"
    /\ UNCHANGED <<loc, rfile, restored, reads, probe, ub>>

\* Feedback values, energies in units of 1e51 erg
FeedbackValues ==
    /\ pc = "feedback_values"
    /\ LET feedback_efficiency == 700000
           PopII_SW_end_time == 31 * One
           PopIII_SW_end_time == 16700000
       IN  self' = PutAll(self, <<
               <<"_PopII_SNII_energy", Mul(One, feedback_efficiency)>>,
               <<"_PopII_SNII_mass", 191445>>,
               <<"_PopII_SNII_metals", 24144>>,
               <<"_PopII_SNII_Fe", 933>>,
               <<"_PopII_SNII_Mg", 1514>>,
               <<"_PopII_SNIa_energy", Mul(One, feedback_efficiency)>>,
               <<"_PopII_SNIa_mass", 6551>>,
               <<"_PopII_SNIa_metals", 6551>>,
               <<"_PopII_SNIa_Fe", 1651>>,
               <<"_PopII_SNIa_Mg", 258>>,
               <<"_PopII_SW_end_time", PopII_SW_end_time>>,
               <<"_PopII_SW_energy",
                 Div(Mul(100000, feedback_efficiency), PopII_SW_end_time)>>,
               <<"_PopIII_SN_energy",
                 Mul(Get(self, "_PopIII_Eint"), feedback_efficiency)>>,
               <<"_PopIII_SN_mass", 450000>>,
               <<"_PopIII_SN_metals", 26000>>,
               <<"_PopIII_SN_Fe", 93>>,
               <<"_PopIII_SN_Mg", 151>>,
               <<"_PopIII_SW_end_time", PopIII_SW_end_time>>,
               <<"_PopIII_SW_energy",
                 Div(Mul(One, feedback_efficiency), PopIII_SW_end_time)>> >>)
    /\ pc' = "constructed"
    /\ UNCHANGED <<loc, calls, rfile, restored, reads, probe, ub>>

(***************************************************************************)
(* Evaluation of a density function of the constructed object at an        *)
(* argument x.                                                             *)
(***************************************************************************)
ProbeSteps == 12

DelayFunctions == {"PopII_SNIa_delay1", "PopII_SNIa_delay2", "PopII_SNIa_delay"}
IMFFunctions == {"PopII_IMF", "PopIII_IMF"}

\* Times around the window [0.03, 13.6] and a sweep from 0 to beyond it
TimeProbes ==
    {0 - One, 0, 20000, 29999, 30000, 30001, 50000, 250000,
     13599999, 13600000, 13600001, 14 * One, 16 * One}
    \cup {(k * 13600000) \div ProbeSteps : k \in 0..(ProbeSteps + 1)}

\* Masses at and next to the four bounds and a sweep from 0.01 to 1000
MassProbes ==
    {0 - One, 0, 69999, 70000, 70001, 699999, 700000, 700001,
     99999999, 100 * One, 100000001, 499999999, 500 * One, 500000001}
    \cup {Pow10((k * 5 * One) \div ProbeSteps - 2 * One) : k \in 0..ProbeSteps}

Evaluate ==
    /\ pc = "constructed"
    /\ \E fn \in DelayFunctions \cup IMFFunctions :
         \E x \in IF fn \in DelayFunctions THEN TimeProbes ELSE MassProbes :
            probe' = <<[fn |-> fn, x |-> x, val |-> Integrand(fn, self, x)]>>
    /\ UNCHANGED <<pc, self, loc, calls, rfile, restored, reads, ub>>

(***************************************************************************)
(* RestartFile: write() appends an item, read() takes the next one.  An    *)
(* item is the value written, tagged with the field it was written from    *)
(* (history).  A GSLInterpolator dumps its kind, its size and its knots    *)
(* and is created again from them.                                         *)
(***************************************************************************)
SplineDump(s) ==
    [kind |-> "spline",
     data |-> <<s.kind, Len(s.x)>> \o s.x \o s.fine \o s.y]

SplineRestore(data) ==
    LET n == data[2]
    IN  [kind |-> data[1],
         x |-> [k \in 1..n |-> data[2 + k]],
         fine |-> [k \in 1..n |-> data[2 + n + k]],
         y |-> [k \in 1..n |-> data[2 + 2 * n + k]]]

ScalarDump(v) == [kind |-> "scalar", data |-> v]

\* dump(): the fields in the order they are written
DumpParameters == <<
    "_PopII_M_low", "_PopII_M_upp",
    "_PopII_fac_IMF", "_PopII_M_SNII_low",
    "_PopII_M_SNIa_low", "_PopII_M_SNIa_upp",
    "_PopII_SNIa_delay_mu", "_PopII_SNIa_delay_sigma",
    "_PopII_SNIa_delay_norm1", "_PopII_SNIa_delay_norm2",
    "_PopIII_cutoff", "_PopIII_M_low",
    "_PopIII_M_upp", "_PopIII_M_SN_low",
    "_PopIII_M1", "_PopIII_M2",
    "_PopIII_M3", "_PopIII_fac",
    "_PopIII_pw", "_PopII_Mint",
    "_PopII_NIIint", "_PopII_NIaint",
    "_PopIII_Mint", "_PopIII_Nint",
    "_PopIII_Eint">>
\* The splines with the two lifetime splines in the other order
DumpSplines_lifetimes_swapped == <<
    "_PopII_SNIa_delay_spline",
    "_PopIII_IMF_spline",
    "_PopIII_lifetime_spline", "_PopII_lifetime_spline",
    "_PopIII_E_SN_spline">>
\* dump(): the splines
DumpSplines == <<
    "_PopII_SNIa_delay_spline",
    "_PopIII_IMF_spline",
    "_PopII_lifetime_spline", "_PopIII_lifetime_spline",
    "_PopIII_E_SN_spline">>
\* dump(): the feedback values
DumpFeedback == <<
    "_PopII_SNII_energy", "_PopII_SNII_mass",
    "_PopII_SNII_metals", "_PopII_SNII_Fe",
    "_PopII_SNII_Mg", "_PopII_SNIa_energy",
    "_PopII_SNIa_mass", "_PopII_SNIa_metals",
    "_PopII_SNIa_Fe", "_PopII_SNIa_Mg",
    "_PopII_SW_energy", "_PopII_SW_end_time",
    "_PopIII_SN_energy", "_PopIII_SN_mass",
    "_PopIII_SN_metals", "_PopIII_SN_Fe",
    "_PopIII_SN_Mg", "_PopIII_SW_energy",
    "_PopIII_SW_end_time">>
DumpOrder == DumpParameters \o DumpSplines \o DumpFeedback

\* DiscreteStellarFeedback(RestartFile&): the fields in the order they are read
RestoreParameters == <<
    "_PopII_M_low", "_PopII_M_upp",
    "_PopII_fac_IMF", "_PopII_M_SNII_low",
    "_PopII_M_SNIa_low", "_PopII_M_SNIa_upp",
    "_PopII_SNIa_delay_mu", "_PopII_SNIa_delay_sigma",
    "_PopII_SNIa_delay_norm1", "_PopII_SNIa_delay_norm2",
    "_PopIII_cutoff", "_PopIII_M_low",
    "_PopIII_M_upp", "_PopIII_M_SN_low",
    "_PopIII_M1", "_PopIII_M2",
    "_PopIII_M3", "_PopIII_fac",
    "_PopIII_pw", "_PopII_Mint",
    "_PopII_NIIint", "_PopII_NIaint",
    "_PopIII_Mint", "_PopIII_Nint",
    "_PopIII_Eint">>
\* The splines with the two lifetime splines in the other order
RestoreSplines_lifetimes_swapped == <<
    "_PopII_SNIa_delay_spline",
    "_PopIII_IMF_spline",
    "_PopIII_lifetime_spline", "_PopII_lifetime_spline",
    "_PopIII_E_SN_spline">>
\* DiscreteStellarFeedback(RestartFile&): the splines
RestoreSplines == <<
    "_PopII_SNIa_delay_spline",
    "_PopIII_IMF_spline",
    "_PopII_lifetime_spline", "_PopIII_lifetime_spline",
    "_PopIII_E_SN_spline">>
\* DiscreteStellarFeedback(RestartFile&): the feedback values
RestoreFeedback == <<
    "_PopII_SNII_energy", "_PopII_SNII_mass",
    "_PopII_SNII_metals", "_PopII_SNII_Fe",
    "_PopII_SNII_Mg", "_PopII_SNIa_energy",
    "_PopII_SNIa_mass", "_PopII_SNIa_metals",
    "_PopII_SNIa_Fe", "_PopII_SNIa_Mg",
    "_PopII_SW_energy", "_PopII_SW_end_time",
    "_PopIII_SN_energy", "_PopIII_SN_mass",
    "_PopIII_SN_metals", "_PopIII_SN_Fe",
    "_PopIII_SN_Mg", "_PopIII_SW_energy",
    "_PopIII_SW_end_time">>
RestoreOrder == RestoreParameters \o RestoreSplines \o RestoreFeedback

\* dump(): one write
Dump ==
    /\ pc \in {"constructed", "dumping"}
    /\ LET f == DumpOrder[Len(rfile) + 1]
           item == IF f \in SplineFields THEN SplineDump(Get(self, f))
                   ELSE ScalarDump(Get(self, f))
       IN  rfile' = Append(rfile, [field |-> f] @@ item)
    /\ pc' = IF Len(rfile) + 1 = Len(DumpOrder) THEN "dumped" ELSE "dumping"
    /\ probe' = <<>>
    /\ UNCHANGED <<self, loc, calls, restored, reads, ub>>

\* The restart constructor: one read.  A read past the end of the file, or
\* of an item of the other kind, is fatal.
Restore ==
    /\ pc \in {"dumped", "restoring"}
    /\ LET k == Len(reads) + 1
           f == RestoreOrder[k]
           want == IF f \in SplineFields THEN "spline" ELSE "scalar"
       IN  IF k > Len(rfile) \/ rfile[k].kind # want
           THEN /\ pc' = "read_error"
                /\ UNCHANGED <<restored, reads>>
           ELSE /\ restored' = Put(restored, f,
                                   IF want = "spline"
                                   THEN SplineRestore(rfile[k].data)
                                   ELSE rfile[k].data)
                /\ reads' = Append(reads, f)
                /\ pc' = IF k = Len(RestoreOrder) THEN "restored"
                         ELSE "restoring"
    /\ UNCHANGED <<self, loc, calls, rfile, probe, ub>>

\* The integrands the statement at a position of initialize() hands to
\* GSL::qag
Integrated(at) ==
    CASE at = "popII_integrals" -> {"PopII_mIMF", "PopII_IMF"}
      [] at = "popIII_integrals" -> {"PopIII_mIMF", "PopIII_IMF"}
      [] at = "normalize_delay1" -> {"PopII_SNIa_delay1"}
      [] at = "normalize_delay2" -> {"PopII_SNIa_delay2"}
      [] at = "delay_loop" -> {"PopII_SNIa_delay"}
      [] at = "popIII_spline" -> {"PopIII_IMF"}
      [] at = "popIII_loop" -> {"PopIII_IMF"}
      [] at = "energy_integral" -> {"PopIII_EIMF"}
      [] OTHER -> {}

Next ==
    \/ ChabrierParameters
    \/ DelayParameters
    \/ PopIIIParameters
    \/ PopIIIntegrals
    \/ PopIIIIntegrals
    \/ NormalizeDelay1
    \/ NormalizeDelay2
    \/ DelaySplineBegin
    \/ DelaySplineLoop
    \/ DelaySplineEnd
    \/ PopIIISplineBegin
    \/ PopIIISplineLoop
    \/ PopIIISplineEnd
    \/ LifetimeSplines
    \/ EnergySpline
    \/ EnergyIntegral
    \/ FeedbackValues
    \/ Evaluate
    \/ Dump
    \/ Restore

Spec == Init /\ [][Next]_vars

(***************************************************************************)
(* The properties of the specification document, each stated over the      *)
(* state machine above.                                                    *)
(***************************************************************************)
\* The five splines in the order the document gives them
SplinesInOrder == <<
    "_PopII_SNIa_delay_spline", "_PopIII_IMF_spline",
    "_PopII_lifetime_spline", "_PopIII_lifetime_spline",
    "_PopIII_E_SN_spline">>

\* C1: the k-th item dump() writes is the field the restart constructor
\* reads k-th; both sequences have 49 items, 44 scalars and 5 splines, and
\* the splines are items 26..30 of both, in the order SNIa delay, PopIII IMF,
\* PopII lifetime, PopIII lifetime, PopIII SN energy.
C1_DumpAndRestoreInTheSameOrder ==
    /\ pc # "read_error"
    /\ Len(reads) <= Len(rfile)
    /\ \A k \in 1..Len(reads) : reads[k] = rfile[k].field
    /\ pc \in {"dumped", "restoring", "restored"} =>
          /\ Len(rfile) = 49
          /\ Cardinality({k \in 1..49 : rfile[k].kind = "scalar"}) = 44
          /\ {k \in 1..49 : rfile[k].kind = "spline"} = 26..30
          /\ [k \in 1..5 |-> rfile[25 + k].field] = SplinesInOrder
    /\ pc = "restored" =>
          /\ Len(reads) = 49
          /\ {k \in 1..49 : reads[k] \in SplineFields} = 26..30
          /\ [k \in 1..5 |-> reads[25 + k]] = SplinesInOrder

\* The restart constructor has read the whole checkpoint.
C1_Witness ==
    /\ pc = "restored"
    /\ Len(reads) = 49
    /\ Len(rfile) = 49
    /\ reads[49] = rfile[49].field

\* C2: after initialize(), dump() and the restart constructor, every field
\* initialize() assigned is assigned in the restored object, every scalar
\* with the value it had in the dumped object and every spline with the
\* spline dumped from the same field.
C2_DumpThenRestoreReproducesTheModel ==
    pc = "restored" =>
        /\ \A f \in Fields : self[f] # <<>> => restored[f] # <<>>
        /\ \A f \in ScalarFields : self[f] # <<>> => restored[f] = self[f]
        /\ \A f \in SplineFields :
              /\ restored[f] # <<>>
              /\ Get(restored, f).kind = Get(self, f).kind
              /\ Get(restored, f).x = Get(self, f).x
              /\ Get(restored, f).fine = Get(self, f).fine
              /\ Get(restored, f).y = Get(self, f).y

\* A restored object, of an object all of whose fields initialize() assigned
C2_Witness ==
    /\ pc = "restored"
    /\ \A f \in Fields : self[f] # <<>>
    /\ Get(restored, "_PopIII_SN_energy") = Get(self, "_PopIII_SN_energy")
    /\ Len(Get(restored, "_PopIII_IMF_spline").x) = PopIIIKnots

\* The argument x lies outside the support of the density function fn.
OutsideSupport(fn, x) ==
    CASE fn \in DelayFunctions -> x < 30000 \/ x > 13600000
      [] fn = "PopII_IMF" ->
            x <= Get(self, "_PopII_M_low") \/ x >= Get(self, "_PopII_M_upp")
      [] fn = "PopIII_IMF" ->
            x <= Get(self, "_PopIII_M_low") \/ x >= Get(self, "_PopIII_M_upp")

\* C3: after initialize(), PopII_IMF, PopIII_IMF, PopII_SNIa_delay1,
\* PopII_SNIa_delay2 and PopII_SNIa_delay return a value >= 0 for every
\* argument and exactly 0 for every argument outside the support (the mass
\* bounds, the window [0.03, 13.6]).
C3_DensitiesNonNegativeAndZeroOutsideSupport ==
    \A k \in 1..Len(probe) :
        /\ probe[k].val >= 0
        /\ OutsideSupport(probe[k].fn, probe[k].x) => probe[k].val = 0

\* C4: PopII_IMF(m) is exactly 0 for m <= _PopII_M_low and m >= _PopII_M_upp,
\* PopIII_IMF(m) is exactly 0 for m <= _PopIII_M_low and m >= _PopIII_M_upp,
\* the bounds themselves included.
C4_IMFZeroAtAndBeyondTheBounds ==
    \A k \in 1..Len(probe) :
        (probe[k].fn \in IMFFunctions /\ OutsideSupport(probe[k].fn, probe[k].x))
            => probe[k].val = 0

\* PopII_IMF evaluated at its lower bound, PopIII_IMF's bounds being probed
\* in other states
C4_Witness ==
    \E k \in 1..Len(probe) :
        /\ probe[k].fn = "PopII_IMF"
        /\ probe[k].x = Get(self, "_PopII_M_low")
        /\ probe[k].val = 0

\* The ordinates of spline s do not decrease / do not increase in knot order.
NonDecreasing(s) == \A k \in 1..(Len(s.y) - 1) : s.y[k] <= s.y[k + 1]
NonIncreasing(s) == \A k \in 1..(Len(s.y) - 1) : s.y[k] >= s.y[k + 1]

\* C5: the ordinates of the 30 knots handed to the cumulative delay time
\* spline do not decrease in knot order, and the knots at log10(13.6) and
\* log10(13.8) have ordinate exactly 1.
C5_CumulativeDelayKnotsNonDecreasing ==
    self["_PopII_SNIa_delay_spline"] # <<>> =>
        /\ Len(Get(self, "_PopII_SNIa_delay_spline").y) = 30
        /\ NonDecreasing(Get(self, "_PopII_SNIa_delay_spline"))
        /\ Get(self, "_PopII_SNIa_delay_spline").x[29] = Log10(13600000)
        /\ Get(self, "_PopII_SNIa_delay_spline").x[30] = Log10(13800000)
        /\ Get(self, "_PopII_SNIa_delay_spline").y[29] = One
        /\ Get(self, "_PopII_SNIa_delay_spline").y[30] = One

\* The spline exists, and the loop's cumulative integrals rise from 0 to
\* below 1.
C5_Witness ==
    /\ self["_PopII_SNIa_delay_spline"] # <<>>
    /\ Get(self, "_PopII_SNIa_delay_spline").y[3] > 0
    /\ Get(self, "_PopII_SNIa_delay_spline").y[3]
         < Get(self, "_PopII_SNIa_delay_spline").y[28]
    /\ Get(self, "_PopII_SNIa_delay_spline").y[28] < One

StrictlyIncreasing(s) ==
    \A k \in 1..(Len(s.x) - 1) :
        \/ s.x[k] < s.x[k + 1]
        \/ s.x[k] = s.x[k + 1] /\ s.fine[k] < s.fine[k + 1]

\* The knots of each spline, as the document counts them
KnotCount ==
    [f \in SplineFields |->
        CASE f = "_PopII_SNIa_delay_spline" -> 30
          [] f = "_PopIII_IMF_spline" -> 289
          [] f = "_PopII_lifetime_spline" -> 87
          [] f = "_PopIII_lifetime_spline" -> 24
          [] f = "_PopIII_E_SN_spline" -> 18]

\* C7: every spline initialize() creates is built from strictly increasing
\* abscissas: the 30 delay time knots, the 289 PopIII IMF knots, the 87 and
\* 24 lifetime knots and the 18 energy knots with the pair 140, 140 + 1e-10.
C7_SplineAbscissasStrictlyIncreasing ==
    \A f \in SplineFields :
        self[f] # <<>> =>
            /\ Len(Get(self, f).x) = KnotCount[f]
            /\ StrictlyIncreasing(Get(self, f))

\* All five splines exist; the energy spline has the pair 140, 140 + 1e-10
\* and the delay time spline its adjusted padding knot.
C7_Witness ==
    /\ \A f \in SplineFields : self[f] # <<>>
    /\ Get(self, "_PopIII_E_SN_spline").x[11] = 140 * One
    /\ Get(self, "_PopIII_E_SN_spline").x[12] = 140 * One
    /\ Get(self, "_PopIII_E_SN_spline").fine[12] = 1
    /\ Get(self, "_PopII_SNIa_delay_spline").x[1]
         < Get(self, "_PopII_SNIa_delay_spline").x[2]

\* C8, as the code has it: the padding knot of the cumulative delay time
\* spline has abscissa -2 + cumul_delay[1] (the first cumulative value of the
\* loop added to -2) and ordinate 0.
C8_PaddingKnotIsMinusTwoPlusFirstCumulative ==
    self["_PopII_SNIa_delay_spline"] # <<>> =>
        /\ Get(self, "_PopII_SNIa_delay_spline").x[1]
             = (0 - 2) * One + Get(self, "_PopII_SNIa_delay_spline").y[2]
        /\ Get(self, "_PopII_SNIa_delay_spline").y[1] = 0

\* The spline exists, its first real sample is at log10(0.03) and the loop
\* has computed a positive second cumulative value.
C8_Witness ==
    /\ self["_PopII_SNIa_delay_spline"] # <<>>
    /\ Get(self, "_PopII_SNIa_delay_spline").x[2] = Log10(30000)
    /\ Get(self, "_PopII_SNIa_delay_spline").y[3] > 0
    /\ Get(self, "_PopII_SNIa_delay_spline").x[1] > (0 - 3) * One

\* C8, as the document has it: the padding knot has abscissa log10(0.03) - 2
\* and its ordinate is the second cumulative value of the loop (the second
\* value the loop computes, or the second entry of the array).
C8_PaddingKnotTwoDecadesBelowFirstSample ==
    self["_PopII_SNIa_delay_spline"] # <<>> =>
        /\ Get(self, "_PopII_SNIa_delay_spline").x[1] = Log10(30000) - 2 * One
        /\ \/ Get(self, "_PopII_SNIa_delay_spline").y[1]
                = Get(self, "_PopII_SNIa_delay_spline").y[3]
           \/ Get(self, "_PopII_SNIa_delay_spline").y[1]
                = Get(self, "_PopII_SNIa_delay_spline").y[2]

\* The calls of GSL::qag made so far with integrand fn
CallsOf(fn) == {k \in 1..Len(calls) : calls[k].fn = fn}

\* C9: each of the two DTD components is integrated over [0.03, 13.6] while
\* its own normalization constant is still 1; norm1 is then 0.4 / integral1
\* and norm2 is 0.6 / integral2; both have these values during the first
\* cumulative integral of the spline grid and in every later state, so that
\* norm1 * integral1 + norm2 * integral2 = 1 (to the fourth decimal).
C9_DelayNormalizedBeforeCumulativeIntegrals ==
    /\ \A i \in CallsOf("PopII_SNIa_delay1") :
          /\ calls[i].norm1 = <<One>>
          /\ calls[i].a = 30000 /\ calls[i].b = 13600000
          /\ self["_PopII_SNIa_delay_norm1"] = <<Div(400000, calls[i].val)>>
    /\ \A j \in CallsOf("PopII_SNIa_delay2") :
          /\ calls[j].norm2 = <<One>>
          /\ calls[j].a = 30000 /\ calls[j].b = 13600000
          /\ self["_PopII_SNIa_delay_norm2"] = <<Div(600000, calls[j].val)>>
    /\ Cardinality(CallsOf("PopII_SNIa_delay1")) <= 1
    /\ Cardinality(CallsOf("PopII_SNIa_delay2")) <= 1
    /\ \A k \in CallsOf("PopII_SNIa_delay") :
          /\ \E i \in CallsOf("PopII_SNIa_delay1") :
                i < k /\ calls[k].norm1 = <<Div(400000, calls[i].val)>>
          /\ \E j \in CallsOf("PopII_SNIa_delay2") :
                j < k /\ calls[k].norm2 = <<Div(600000, calls[j].val)>>
    /\ \A i \in CallsOf("PopII_SNIa_delay1") :
          \A j \in CallsOf("PopII_SNIa_delay2") :
             Abs(Mul(Get(self, "_PopII_SNIa_delay_norm1"), calls[i].val)
                 + Mul(Get(self, "_PopII_SNIa_delay_norm2"), calls[j].val)
                 - One) <= One \div 10000

\* initialize() has returned: both components were integrated and all the
\* cumulative integrals of the spline grid were computed.
C9_Witness ==
    /\ pc = "constructed"
    /\ CallsOf("PopII_SNIa_delay1") # {}
    /\ CallsOf("PopII_SNIa_delay2") # {}
    /\ Cardinality(CallsOf("PopII_SNIa_delay")) = 27
    /\ Get(self, "_PopII_SNIa_delay_norm1") # One
    /\ Get(self, "_PopII_SNIa_delay_norm2") # One

\* The slots of array a that have been assigned
Stored(a) == {k \in DOMAIN a : a[k] # <<>>}

\* C10: the delay time loop writes only slots inside the 30-element arrays
\* and the PopIII loop only slots inside the 289-element arrays; the slots
\* the loops write are exactly 1..27 and 1..286, between slot 0 and the
\* trailing slots 28, 29 and 287, 288; every slot has been assigned when a
\* spline is created with count 30 or 289.
C10_LoopsFillExactlyTheSlotsBetween ==
    /\ ~ub
    /\ pc # "undefined"
    /\ pc = "delay_loop" =>
          /\ loc.i[1] \in 1..28
          /\ Stored(loc.ts) = 0..(loc.i[1] - 1)
          /\ Stored(loc.cumul_delay) = 0..(loc.i[1] - 1)
    /\ pc = "delay_knots" =>
          /\ loc.i[1] = 28
          /\ Stored(loc.ts) = 0..27
          /\ Stored(loc.cumul_delay) = 0..27
    /\ pc = "popIII_loop" =>
          /\ loc.i[1] \in 1..287
          /\ Stored(loc.PopIII_IMF_ms) = 0..(loc.i[1] - 1)
          /\ Stored(loc.PopIII_IMF_IMFs) = 0..(loc.i[1] - 1)
    /\ pc = "popIII_knots" =>
          /\ loc.i[1] = 287
          /\ Stored(loc.PopIII_IMF_ms) = 0..286
          /\ Stored(loc.PopIII_IMF_IMFs) = 0..286
    /\ self["_PopII_SNIa_delay_spline"] # <<>> =>
          /\ Stored(loc.ts) = 0..29
          /\ Stored(loc.cumul_delay) = 0..29
          /\ Len(Get(self, "_PopII_SNIa_delay_spline").x) = 30
          /\ Len(Get(self, "_PopII_SNIa_delay_spline").y) = 30
    /\ self["_PopIII_IMF_spline"] # <<>> =>
          /\ Stored(loc.PopIII_IMF_ms) = 0..288
          /\ Stored(loc.PopIII_IMF_IMFs) = 0..288
          /\ Len(Get(self, "_PopIII_IMF_spline").x) = 289
          /\ Len(Get(self, "_PopIII_IMF_spline").y) = 289

\* Both loops have run to their ends and both splines have been created.
C10_Witness ==
    /\ self["_PopII_SNIa_delay_spline"] # <<>>
    /\ self["_PopIII_IMF_spline"] # <<>>
    /\ loc.i = <<287>>
    /\ Stored(loc.ts) = 0..29
    /\ Stored(loc.PopIII_IMF_ms) = 0..288

(***************************************************************************)
(* C11: during initialize() no quadrature integrand reads a field or       *)
(* evaluates a spline that has not been assigned earlier in initialize():  *)
(* every field the integrands of the statement about to run read is        *)
(* assigned, and was assigned at every call of GSL::qag made so far; in    *)
(* particular _PopII_fac_IMF and the mass bounds before the first PopII    *)
(* integral, the PopIII breakpoints, factor and exponent before the first  *)
(* PopIII integral, and _PopIII_E_SN_spline before the integral of         *)
(* PopIII_EIMF.  _PopIII_Eint is assigned before _PopIII_SN_energy is      *)
(* computed, and _PopIII_SN_energy is _PopIII_Eint times the feedback      *)
(* efficiency 0.7.                                                         *)
(***************************************************************************)
C11_IntegrandsReadOnlyAssignedFields ==
    /\ \A fn \in Integrated(pc) : FieldsRead(fn) \subseteq Assigned(self)
    /\ \A k \in 1..Len(calls) :
           FieldsRead(calls[k].fn) \subseteq calls[k].assigned
    /\ \A k \in CallsOf("PopII_IMF") \cup CallsOf("PopII_mIMF") :
           {"_PopII_fac_IMF", "_PopII_M_low", "_PopII_M_upp"}
               \subseteq calls[k].assigned
    /\ \A k \in CallsOf("PopIII_IMF") \cup CallsOf("PopIII_mIMF") :
           {"_PopIII_M1", "_PopIII_M2", "_PopIII_M3", "_PopIII_fac",
            "_PopIII_pw"} \subseteq calls[k].assigned
    /\ \A k \in CallsOf("PopIII_EIMF") :
           "_PopIII_E_SN_spline" \in calls[k].assigned
    /\ pc = "feedback_values" => "_PopIII_Eint" \in Assigned(self)
    /\ "_PopIII_Eint" \in Assigned(self) =>
           /\ CallsOf("PopIII_EIMF") # {}
           /\ \A k \in CallsOf("PopIII_EIMF") :
                  calls[k].val = Get(self, "_PopIII_Eint")
    /\ "_PopIII_SN_energy" \in Assigned(self) =>
           /\ "_PopIII_Eint" \in Assigned(self)
           /\ Get(self, "_PopIII_SN_energy")
                  = Mul(Get(self, "_PopIII_Eint"), 700000)

\* initialize() has run to its end: all integrals were taken, the first of
\* them a PopII integral and the last the energy integral, which evaluated
\* the energy spline to a positive energy.
C11_Witness ==
    /\ pc = "constructed"
    /\ calls # <<>>
    /\ calls[1].fn = "PopII_mIMF"
    /\ calls[Len(calls)].fn = "PopIII_EIMF"
    /\ CallsOf("PopIII_IMF") # {}
    /\ CallsOf("PopII_SNIa_delay") # {}
    /\ Get(self, "_PopIII_Eint") > 0
    /\ Get(self, "_PopIII_SN_energy") > 0
    /\ Get(self, "_PopIII_SN_energy") < Get(self, "_PopIII_Eint")

====
